---- MODULE Spec2Model ----
(***************************************************************************)
(* The live recording session of frontend/src/components/                  *)
(* live-speech-to-text.tsx (EnhancedLiveTranscription): the React state,   *)
(* the three refs, the MediaRecorder objects and device streams the        *)
(* component creates, and the asynchronous calls it has in flight.         *)
(*                                                                         *)
(* Every handler runs to completion on the single UI thread, so one action *)
(* is one handler, or the part of an async function between two awaits.    *)
(***************************************************************************)
EXTENDS Naturals, Sequences, FiniteSets, TLC

VARIABLES
    isRecording,        \* useState(false)
    isProcessing,       \* useState(false)
    transcription,      \* useState(null): Null or <<result>>
    error,              \* useState(null): Null or <<message>>
    audioChunks,        \* useState([]): sequence of AudioChunk
    mediaRecorderRef,   \* useRef(null): 0 or a recorder id
    streamRef,          \* useRef(null): 0 or a stream id
    recordedChunksRef,  \* useRef([]): sequence of blobs
    recorders,          \* every MediaRecorder created so far, by id
    streams,            \* every MediaStream initializeRecorder acquired, by id: "live" | "ended"
    emitted,            \* non-empty buffers the recorders have emitted so far
    testStreamsLive,    \* streams testMicrophone acquired and has not stopped
    supported,          \* the mime types MediaRecorder.isTypeSupported accepts
    gumPending,         \* startRecording calls suspended in getUserMedia
    fetchPending,       \* requests to /live-chunks in flight (their payloads)
    fetchCount,         \* history: requests issued to /live-chunks so far
    submitOutcome,      \* history: how the last submit since the last start/reset ended
    lastOp,             \* history: the handler that ran last
    lastRequest,        \* history: the endpoint that handler sent a request to, or "none"
    resultOf,           \* history: the payload of the request whose result transcription holds
    sliceSize,          \* the bytes the platform's encoder makes of one timeslice of audio
    speechToTxtAgent    \* the state of the upload page (SpeechToTxtAgent)

\* The component's React state and refs
component == <<isRecording, isProcessing, transcription, error, audioChunks,
               mediaRecorderRef, streamRef, recordedChunksRef>>
\* The platform's objects
\* What no handler of the recording session writes: the platform's capabilities
\* and the upload page
outside == <<supported, sliceSize, speechToTxtAgent>>
platform == <<recorders, streams, emitted, testStreamsLive, outside>>
\* The calls in flight
inflight == <<gumPending, fetchPending>>

vars == <<component, platform, inflight, fetchCount, submitOutcome, lastOp, lastRequest,
          resultOf>>

-----------------------------------------------------------------------------
(* Bounds of the model *)

MaxStreams == 2     \* device streams initializeRecorder acquires
MaxData == 2        \* non-empty buffers the recorders emit
MaxQueue == 2       \* events a recorder may have queued when one more is caused
MaxFetch == 2       \* requests issued to /live-chunks

-----------------------------------------------------------------------------
(* Values *)

Null == <<>>
Some(x) == <<x>>

MinChunkSize == 1000

mimeTypes == <<"audio/wav", "audio/webm;codecs=opus", "audio/webm", "audio/ogg;codecs=opus">>

\* Sizes of the non-empty buffers the platform hands to ondataavailable: of the rest
\* a recorder flushes when it is inactivated, and of a whole timeslice of audio.
BlobSizes == {500}
SliceSizes == {500, 999, 1000}

EmptyBlob == [rec |-> 0, seq |-> 0, size |-> 0]

RECURSIVE SumSizes(_)
SumSizes(blobs) ==
    IF blobs = <<>> THEN 0 ELSE Head(blobs).size + SumSizes(Tail(blobs))

\* new Blob(parts, {type}): the parts in order, its size their total
NewBlob(parts, type) == [parts |-> parts, size |-> SumSizes(parts), type |-> type]

-----------------------------------------------------------------------------
(* The platform: MediaRecorder and MediaStream (W3C MediaStream Recording) *)

Event(type, data) == [type |-> type, data |-> data]

\* new MediaRecorder(stream, {mimeType}): inactive, nothing queued. sent counts the
\* buffers its timeslice has produced since its last stop event was fired.
NewRecorder(stream, mimeType) ==
    [state |-> "inactive", stream |-> stream, mimeType |-> mimeType, events |-> <<>>,
     sent |-> 0]

\* MediaRecorder.start() throws unless the recorder is inactive and its stream live.
RecorderCanStart(rec) == rec.state = "inactive" /\ streams[rec.stream] = "live"

\* After start(): recording, and a start event is queued.
Started(rec) ==
    [rec EXCEPT !.state = "recording", !.events = Append(@, Event("start", EmptyBlob))]

\* The buffer a recorder may flush when it is inactivated: what it gathered since
\* the last dataavailable, possibly nothing.
FinalBlobs(r) ==
    {EmptyBlob} \cup
    (IF emitted < MaxData
     THEN {[rec |-> r, seq |-> emitted + 1, size |-> sz] : sz \in BlobSizes}
     ELSE {})

\* Inactivating a recorder (stop(), or every track of its stream ending): it is
\* inactive at once; dataavailable with the gathered data and then stop are queued.
Inactivated(rec, final) ==
    [rec EXCEPT !.state = "inactive",
                !.events = @ \o <<Event("dataavailable", final), Event("stop", EmptyBlob)>>]

\* The recorder r is recording the stream. (Every recorder is created on a stream
\* of its own, so at most one recorder records a stream.)
Recording(r, stream) == recorders[r].stream = stream /\ recorders[r].state = "recording"

\* A negotiation that keeps the last supported entry of the list.
LastSupported(types, sup) ==
    IF \A i \in DOMAIN types : types[i] \notin sup THEN Null
    ELSE Some(types[CHOOSE i \in DOMAIN types :
                      /\ types[i] \in sup
                      /\ \A j \in DOMAIN types : j > i => types[j] \notin sup])

\* The loop over mimeTypes with MediaRecorder.isTypeSupported: the first supported
\* entry, or Null (selectedMimeType stays null).
RECURSIVE FirstSupported(_, _)
FirstSupported(types, sup) ==
    IF types = <<>> THEN Null
    ELSE IF Head(types) \in sup THEN Some(Head(types))
    ELSE FirstSupported(Tail(types), sup)

selectedMimeType == FirstSupported(mimeTypes, supported)

GumDeniedMessage == "Permission denied"
NoMimeMessage == "No supported audio MIME type found"

-----------------------------------------------------------------------------
(* The abstract session state of the spec, read off the component's state.  *)
(* Completed and Failed are how the last submit ended, for as long as no new *)
(* recording has started and the session has not been reset since.           *)

State ==
    IF isProcessing THEN "Submitting"
    ELSE IF submitOutcome = "completed" THEN "Completed"
    ELSE IF submitOutcome = "failed" THEN "Failed"
    ELSE IF isRecording THEN "Recording"
    ELSE IF audioChunks # <<>> THEN "Stopped"
    ELSE "Idle"

-----------------------------------------------------------------------------
(* Capture: initializeRecorder, startRecording, stopRecording, the recorder's *)
(* event handlers, cleanup, testMicrophone.                                   *)

\* startRecording up to its first await: with no recorder it suspends in
\* initializeRecorder's getUserMedia; with one it calls start(1000) on it, and a
\* start() that throws is caught and reported.
startRecording ==
    /\ lastOp' = "startRecording"
    /\ lastRequest' = "none"
    /\ IF mediaRecorderRef = 0
       THEN /\ Len(streams) + gumPending < MaxStreams
            /\ gumPending' = gumPending + 1
            /\ UNCHANGED <<error, recorders>>
       ELSE /\ Len(recorders[mediaRecorderRef].events) < MaxQueue
            /\ IF RecorderCanStart(recorders[mediaRecorderRef])
               THEN /\ recorders' = [recorders EXCEPT ![mediaRecorderRef] = Started(@)]
                    /\ UNCHANGED error
               ELSE /\ error' = Some("Failed to start recording")
                    /\ UNCHANGED recorders
            /\ UNCHANGED gumPending
    /\ UNCHANGED <<isRecording, isProcessing, transcription, resultOf, audioChunks,
                   mediaRecorderRef, streamRef, recordedChunksRef>>
    /\ UNCHANGED <<streams, emitted, testStreamsLive, outside>>
    /\ UNCHANGED <<fetchPending, fetchCount, submitOutcome>>

\* initializeRecorder after getUserMedia settles, and the rest of startRecording
\* behind it (the two continuations run back to back, as microtasks).
initializeRecorder(granted) ==
    /\ gumPending > 0
    /\ gumPending' = gumPending - 1
    /\ lastOp' = "initializeRecorder"
    /\ lastRequest' = "none"
    /\ IF ~granted
       THEN /\ error' = Some("Failed to initialize recorder: " \o GumDeniedMessage)
            /\ UNCHANGED <<streams, streamRef, recorders, mediaRecorderRef>>
       ELSE /\ streams' = Append(streams, "live")
            /\ streamRef' = Len(streams) + 1
            /\ IF selectedMimeType = Null
               THEN /\ error' = Some("Failed to initialize recorder: " \o NoMimeMessage)
                    /\ UNCHANGED <<recorders, mediaRecorderRef>>
               ELSE /\ recorders' = Append(recorders,
                           Started(NewRecorder(Len(streams) + 1, selectedMimeType[1])))
                    /\ mediaRecorderRef' = Len(recorders) + 1
                    /\ UNCHANGED error
    /\ UNCHANGED <<isRecording, isProcessing, transcription, resultOf, audioChunks, recordedChunksRef>>
    /\ UNCHANGED <<emitted, testStreamsLive, outside>>
    /\ UNCHANGED <<fetchPending, fetchCount, submitOutcome>>

\* The timeslice of a recording recorder elapses: a dataavailable event with a
\* non-empty buffer is queued.
timeslice(r) ==
    /\ recorders[r].state = "recording"
    /\ emitted < MaxData
    /\ Len(recorders[r].events) < MaxQueue
    /\ recorders' = [recorders EXCEPT
          ![r].events = Append(@, Event("dataavailable",
                           [rec |-> r, seq |-> emitted + 1, size |-> sliceSize])),
          ![r].sent = @ + 1]
    /\ emitted' = emitted + 1
    /\ lastOp' = "timeslice"
    /\ lastRequest' = "none"
    /\ UNCHANGED <<component, resultOf, streams, testStreamsLive, outside, inflight,
                   fetchCount, submitOutcome>>

\* The platform hits a recording error: the recorder is inactivated and fires
\* error, dataavailable, stop.
recorderFails(r) ==
    /\ recorders[r].state = "recording"
    /\ Len(recorders[r].events) < MaxQueue
    /\ recorders' = [recorders EXCEPT
          ![r] = Inactivated([@ EXCEPT !.events = Append(@, Event("error", EmptyBlob))],
                             EmptyBlob)]
    /\ lastOp' = "recorderFails"
    /\ lastRequest' = "none"
    /\ UNCHANGED <<component, resultOf, streams, emitted, testStreamsLive, outside, inflight,
                   fetchCount, submitOutcome>>

\* An onstart that leaves the previous recording's chunk in place.
onstartKeepsChunks(r) ==
    /\ isRecording' = TRUE
    /\ recordedChunksRef' = <<>>
    /\ error' = Null
    /\ submitOutcome' = "none"
    /\ UNCHANGED <<isProcessing, transcription, resultOf, audioChunks>>

\* mediaRecorder.onstart
onstart(r) ==
    /\ isRecording' = TRUE
    /\ audioChunks' = <<>>
    /\ recordedChunksRef' = <<>>
    /\ error' = Null
    /\ submitOutcome' = "none"
    /\ UNCHANGED <<isProcessing, transcription, resultOf>>

\* mediaRecorder.ondataavailable
ondataavailable(r, data) ==
    /\ recordedChunksRef' = IF data.size > 0 THEN Append(recordedChunksRef, data)
                            ELSE recordedChunksRef
    /\ UNCHANGED <<isRecording, isProcessing, transcription, resultOf, error, audioChunks,
                   submitOutcome>>

\* An onstop that makes one chunk of every buffer, numbered in order.
onstopPerBuffer(r) ==
    /\ isRecording' = FALSE
    /\ IF Len(recordedChunksRef) > 0
       THEN /\ audioChunks' = [i \in 1..Len(recordedChunksRef) |->
                                  [data |-> NewBlob(<<recordedChunksRef[i]>>, recorders[r].mimeType),
                                   index |-> i - 1,
                                   size |-> recordedChunksRef[i].size]]
            /\ UNCHANGED error
       ELSE /\ error' = Some("No audio data was recorded. Please check microphone permissions.")
            /\ UNCHANGED audioChunks
    /\ UNCHANGED <<isProcessing, transcription, resultOf, recordedChunksRef, submitOutcome>>

\* mediaRecorder.onstop
onstop(r) ==
    /\ isRecording' = FALSE
    /\ IF Len(recordedChunksRef) > 0
       THEN /\ audioChunks' = <<[data |-> NewBlob(recordedChunksRef, recorders[r].mimeType),
                                 index |-> 0,
                                 size |-> SumSizes(recordedChunksRef)]>>
            /\ UNCHANGED error
       ELSE /\ error' = Some("No audio data was recorded. Please check microphone permissions.")
            /\ UNCHANGED audioChunks
    /\ UNCHANGED <<isProcessing, transcription, resultOf, recordedChunksRef, submitOutcome>>

\* mediaRecorder.onerror
onerror(r) ==
    /\ error' = Some("Recording error occurred")
    /\ UNCHANGED <<isRecording, isProcessing, transcription, resultOf, audioChunks,
                   recordedChunksRef, submitOutcome>>

\* The event loop hands the oldest queued event of recorder r to its handler.
deliver(r) ==
    /\ recorders[r].events # <<>>
    /\ LET ev == Head(recorders[r].events) IN
         /\ CASE ev.type = "start" -> onstart(r)
              [] ev.type = "dataavailable" -> ondataavailable(r, ev.data)
              [] ev.type = "stop" -> onstop(r)
              [] ev.type = "error" -> onerror(r)
         /\ lastOp' = "on" \o ev.type
    /\ lastRequest' = "none"
    /\ recorders' = [recorders EXCEPT
          ![r].events = Tail(@),
          ![r].sent = IF Head(recorders[r].events).type = "stop" THEN 0 ELSE @]
    /\ UNCHANGED <<mediaRecorderRef, streamRef>>
    /\ UNCHANGED <<streams, emitted, testStreamsLive, outside, inflight, fetchCount>>

\* A stopRecording that does not look at isRecording.
stopRecordingUnguarded ==
    /\ lastOp' = "stopRecording"
    /\ lastRequest' = "none"
    /\ IF mediaRecorderRef # 0 /\ recorders[mediaRecorderRef].state = "recording"
       THEN /\ Len(recorders[mediaRecorderRef].events) < MaxQueue
            /\ \E final \in FinalBlobs(mediaRecorderRef) :
                  /\ recorders' = [recorders EXCEPT ![mediaRecorderRef] = Inactivated(@, final)]
                  /\ emitted' = IF final.size > 0 THEN emitted + 1 ELSE emitted
       ELSE UNCHANGED <<recorders, emitted>>
    /\ UNCHANGED <<component, resultOf, streams, testStreamsLive, outside, inflight,
                   fetchCount, submitOutcome>>

\* stopRecording: stop() on the current recorder when isRecording; stop() on an
\* inactive recorder does nothing.
stopRecording ==
    /\ lastOp' = "stopRecording"
    /\ lastRequest' = "none"
    /\ IF mediaRecorderRef # 0 /\ isRecording /\ recorders[mediaRecorderRef].state = "recording"
       THEN /\ Len(recorders[mediaRecorderRef].events) < MaxQueue
            /\ \E final \in FinalBlobs(mediaRecorderRef) :
                  /\ recorders' = [recorders EXCEPT ![mediaRecorderRef] = Inactivated(@, final)]
                  /\ emitted' = IF final.size > 0 THEN emitted + 1 ELSE emitted
       ELSE UNCHANGED <<recorders, emitted>>
    /\ UNCHANGED <<component, resultOf, streams, testStreamsLive, outside, inflight,
                   fetchCount, submitOutcome>>

\* A cleanup that reports, when there is no stream to release, that nothing was
\* recording.
cleanupStateReportsIdle ==
    /\ recordedChunksRef' = <<>>
    /\ isRecording' = FALSE
    /\ audioChunks' = <<>>
    /\ transcription' = Null
    /\ resultOf' = Null
    /\ error' = IF streamRef = 0 THEN Some("Nothing to reset") ELSE Null
    /\ submitOutcome' = "none"

\* A cleanup that leaves the result in place.
cleanupStateKeepsResult ==
    /\ recordedChunksRef' = <<>>
    /\ isRecording' = FALSE
    /\ audioChunks' = <<>>
    /\ error' = Null
    /\ submitOutcome' = "none"
    /\ UNCHANGED <<transcription, resultOf>>

\* The state cleanup resets, after it has released the stream and the recorder.
cleanupState ==
    /\ recordedChunksRef' = <<>>
    /\ isRecording' = FALSE
    /\ audioChunks' = <<>>
    /\ transcription' = Null
    /\ resultOf' = Null
    /\ error' = Null
    /\ submitOutcome' = "none"

\* cleanup (the Reset button)
cleanup ==
    /\ lastOp' = "cleanup"
    /\ lastRequest' = "none"
    /\ IF streamRef # 0
       THEN /\ streams' = [streams EXCEPT ![streamRef] = "ended"]
            /\ IF \E r \in DOMAIN recorders : Recording(r, streamRef)
               THEN LET r == CHOOSE r \in DOMAIN recorders : Recording(r, streamRef) IN
                    \E final \in FinalBlobs(r) :
                       /\ recorders' = [recorders EXCEPT ![r] = Inactivated(@, final)]
                       /\ emitted' = IF final.size > 0 THEN emitted + 1 ELSE emitted
               ELSE UNCHANGED <<recorders, emitted>>
       ELSE UNCHANGED <<streams, recorders, emitted>>
    /\ streamRef' = 0
    /\ mediaRecorderRef' = 0
    /\ cleanupState
    /\ UNCHANGED <<isProcessing, testStreamsLive, outside, inflight, fetchCount>>

\* testMicrophone. It reads and writes nothing before its await, so the call and
\* its continuation are one step, taken when getUserMedia settles.
testMicrophone(granted) ==
    /\ lastOp' = "testMicrophone"
    /\ lastRequest' = "none"
    /\ IF granted
       THEN \* the stream is acquired and every track of it stopped at once
            /\ testStreamsLive' = (testStreamsLive + 1) - 1
            /\ UNCHANGED error
       ELSE /\ error' = Some("Microphone access failed: " \o GumDeniedMessage)
            /\ UNCHANGED testStreamsLive
    /\ UNCHANGED <<isRecording, isProcessing, transcription, resultOf, audioChunks,
                   mediaRecorderRef, streamRef, recordedChunksRef>>
    /\ UNCHANGED <<recorders, streams, emitted, outside, inflight, fetchCount,
                   submitOutcome>>

-----------------------------------------------------------------------------
(* Submission: processAudioChunks and the response of /live-chunks *)

Whitespace == {" ", "\t", "\n"}

RECURSIVE TrimStart(_)
TrimStart(chars) ==
    IF chars # <<>> /\ Head(chars) \in Whitespace THEN TrimStart(Tail(chars)) ELSE chars

RECURSIVE TrimEnd(_)
TrimEnd(chars) ==
    IF chars # <<>> /\ chars[Len(chars)] \in Whitespace
    THEN TrimEnd(SubSeq(chars, 1, Len(chars) - 1))
    ELSE chars

\* String.prototype.trim, on a string held as its sequence of characters
Trim(chars) == TrimEnd(TrimStart(chars))

\* A parsed JSON object: the fields this component reads, Null when absent.
JsonObject(detail, transcript) == [type |-> "object", detail |-> detail, transcript |-> transcript]
JsonNull == [type |-> "null", detail |-> Null, transcript |-> Null]

\* JSON.parse / response.json() on the response bodies of the model: Some(value),
\* or Null when the text is not JSON (a SyntaxError).
JSONParse(text) ==
    CASE text = "{\"detail\":\"model unavailable\"}" -> Some(JsonObject(Some("model unavailable"), Null))
      [] text = "{\"detail\":\"\"}" -> Some(JsonObject(Some(""), Null))
      [] text = "{\"message\":\"boom\"}" -> Some(JsonObject(Null, Null))
      [] text = "null" -> Some(JsonNull)
      [] text = "{\"transcript\":\"hi\"}" -> Some(JsonObject(Null, Some(<<"h", "i">>)))
      [] text = "{\"transcript\":\" \\n\"}" -> Some(JsonObject(Null, Some(<<" ", "\n">>)))
      [] text = "{\"transcript\":\"\"}" -> Some(JsonObject(Null, Some(<<>>)))
      [] text = "{}" -> Some(JsonObject(Null, Null))
      [] OTHER -> Null

ErrorBodies == {"{\"detail\":\"model unavailable\"}", "{\"detail\":\"\"}",
                "{\"message\":\"boom\"}", "null", "Internal Server Error", ""}
OkBodies == {"{\"transcript\":\"hi\"}", "{\"transcript\":\" \\n\"}",
             "{\"transcript\":\"\"}", "{}", "null", "<html>"}
ErrorStatuses == {"500"}

\* How a fetch settles: it rejects (no connection), or resolves with a response.
Rejected == [settled |-> "rejected", ok |-> FALSE, status |-> "", body |-> ""]
Response(ok, status, body) == [settled |-> "resolved", ok |-> ok, status |-> status, body |-> body]
Responses ==
    {Rejected} \cup {Response(TRUE, "200", b) : b \in OkBodies}
               \cup {Response(FALSE, st, b) : st \in ErrorStatuses, b \in ErrorBodies}

FetchFailedMessage == "Failed to fetch"
SyntaxErrorMessage == "Unexpected token in JSON"
TypeErrorMessage == "Cannot read properties of null"
TooSmallMessage == "Audio file too small. Please record for longer duration."
NoSpeechMessage ==
    "No speech was detected in the recording. Please try recording again and speak clearly."

\* A size check against half the threshold.
TooSmallHalved(chunk) == 2 * chunk.size < MinChunkSize

\* A size check that also refuses a chunk of exactly the threshold.
TooSmallInclusive(chunk) == chunk.size <= MinChunkSize

\* chunk.size < 1000
TooSmall(chunk) == chunk.size < MinChunkSize

\* An error message that drops the status line and keeps the detail alone.
HttpErrorMessageBare(status, errorText) ==
    LET parsed == JSONParse(errorText) IN
    IF parsed # Null /\ parsed[1].detail # Null THEN parsed[1].detail[1] ELSE errorText

\* The error thrown for a response that is not ok: its message, or the TypeError
\* of reading .detail off a body that parses to null.
HttpErrorMessage(status, errorText) ==
    LET parsed == JSONParse(errorText)
        errorData == IF parsed # Null THEN parsed[1]
                     ELSE JsonObject(Some(IF errorText # "" THEN errorText ELSE "Unknown error"), Null)
    IN  IF errorData.type = "null" THEN TypeErrorMessage
        ELSE "HTTP " \o status \o ": " \o
             (IF errorData.detail # Null /\ errorData.detail[1] # ""
              THEN errorData.detail[1] ELSE "Request failed")

\* !result.transcript || result.transcript.trim() === ''
EmptyTranscript(result) ==
    \/ result.transcript = Null
    \/ result.transcript[1] = <<>>
    \/ Trim(result.transcript[1]) = <<>>

\* An exception that leaves processAudioChunks uncaught: no error is set.
ThrownUncaught(message) == [error |-> Null, result |-> Null]

\* catch: the error set for an exception thrown inside the try block
Thrown(message) == [error |-> Some("Processing failed: " \o message), result |-> Null]

\* What processAudioChunks does with a settled fetch: the error it sets (Null when
\* it sets none) and the result it stores (Null when it stores none).
Outcome(resp) ==
    IF resp.settled = "rejected" THEN Thrown(FetchFailedMessage)
    ELSE IF ~resp.ok THEN Thrown(HttpErrorMessage(resp.status, resp.body))
    ELSE LET parsed == JSONParse(resp.body) IN
         IF parsed = Null THEN Thrown(SyntaxErrorMessage)
         ELSE IF parsed[1].type = "null" THEN Thrown(TypeErrorMessage)
         ELSE IF EmptyTranscript(parsed[1])
              THEN [error |-> Some(NoSpeechMessage), result |-> Null]
              ELSE [error |-> Null, result |-> Some(parsed[1])]

LiveChunksEndpoint == "/live-speech-to-text/live-chunks"
LiveSingleEndpoint == "/live-speech-to-text/live-single"

\* processAudioChunks up to its await: the early return, the size check (whose
\* throw is caught at once), or the fetch is issued.
processAudioChunks ==
    /\ lastOp' = "processAudioChunks"
    /\ IF audioChunks = <<>>
       THEN /\ error' = Some("No audio chunks to process")
            /\ lastRequest' = "none"
            /\ UNCHANGED <<isProcessing, fetchPending, fetchCount, submitOutcome>>
       ELSE IF TooSmall(audioChunks[1])
       THEN /\ error' = Thrown(TooSmallMessage).error
            /\ isProcessing' = FALSE
            /\ submitOutcome' = "failed"
            /\ lastRequest' = "none"
            /\ UNCHANGED <<fetchPending, fetchCount>>
       ELSE /\ fetchCount < MaxFetch
            /\ isProcessing' = TRUE
            /\ error' = Null
            /\ fetchPending' = Append(fetchPending, audioChunks[1].data)
            /\ fetchCount' = fetchCount + 1
            /\ lastRequest' = LiveChunksEndpoint
            /\ UNCHANGED submitOutcome
    /\ UNCHANGED <<isRecording, transcription, resultOf, audioChunks, mediaRecorderRef, streamRef,
                   recordedChunksRef, platform, gumPending>>

\* A continuation without the finally block: an exception leaves isProcessing set.
fetchSettledNoFinally(i, resp) ==
    /\ i \in DOMAIN fetchPending
    /\ fetchPending' = SubSeq(fetchPending, 1, i - 1)
                       \o SubSeq(fetchPending, i + 1, Len(fetchPending))
    /\ lastOp' = "fetchSettled"
    /\ lastRequest' = "none"
    /\ LET out == Outcome(resp) IN
         /\ error' = IF out.error # Null THEN out.error ELSE error
         /\ transcription' = IF out.result # Null THEN out.result ELSE transcription
         /\ resultOf' = IF out.result # Null THEN Some(fetchPending[i]) ELSE resultOf
         /\ submitOutcome' = IF out.result # Null THEN "completed" ELSE "failed"
         /\ isProcessing' = IF out.error \in {Null, Some(NoSpeechMessage)} THEN FALSE
                              ELSE isProcessing
    /\ UNCHANGED <<isRecording, audioChunks, mediaRecorderRef, streamRef,
                   recordedChunksRef, platform, gumPending, fetchCount>>

\* A continuation that sends the request again when it has failed.
fetchSettledRetries(i, resp) ==
    /\ i \in DOMAIN fetchPending
    /\ lastOp' = "fetchSettled"
    /\ LET out == Outcome(resp)
           rest == SubSeq(fetchPending, 1, i - 1)
                   \o SubSeq(fetchPending, i + 1, Len(fetchPending))
           again == out.result = Null /\ fetchCount < MaxFetch
       IN  /\ fetchPending' = IF again THEN Append(rest, fetchPending[i]) ELSE rest
           /\ fetchCount' = IF again THEN fetchCount + 1 ELSE fetchCount
           /\ lastRequest' = IF again THEN LiveChunksEndpoint ELSE "none"
           /\ isProcessing' = again
           /\ error' = IF out.error # Null THEN out.error ELSE error
           /\ transcription' = IF out.result # Null THEN out.result ELSE transcription
           /\ resultOf' = IF out.result # Null THEN Some(fetchPending[i]) ELSE resultOf
           /\ submitOutcome' = IF out.result # Null THEN "completed" ELSE "failed"
    /\ UNCHANGED <<isRecording, audioChunks, mediaRecorderRef, streamRef,
                   recordedChunksRef, platform, gumPending>>

\* processAudioChunks after its fetch settles
fetchSettled(i, resp) ==
    /\ i \in DOMAIN fetchPending
    /\ fetchPending' = SubSeq(fetchPending, 1, i - 1)
                       \o SubSeq(fetchPending, i + 1, Len(fetchPending))
    /\ lastOp' = "fetchSettled"
    /\ lastRequest' = "none"
    /\ LET out == Outcome(resp) IN
         /\ error' = IF out.error # Null THEN out.error ELSE error
         /\ transcription' = IF out.result # Null THEN out.result ELSE transcription
         /\ resultOf' = IF out.result # Null THEN Some(fetchPending[i]) ELSE resultOf
         /\ submitOutcome' = IF out.result # Null THEN "completed" ELSE "failed"
    /\ isProcessing' = FALSE
    /\ UNCHANGED <<isRecording, audioChunks, mediaRecorderRef, streamRef,
                   recordedChunksRef, platform, gumPending, fetchCount>>

\* The chunk indexes testSingleChunk is called with: that of the chunk onstop
\* makes, and one past it.
ChunkIndexes == {0, 1}

\* How the request of testSingleChunk ends: a result, a response that is not ok, or
\* a rejected fetch.
SingleOutcomes == {"result", "http error", "rejected"}

\* A testSingleChunk that reports a failed request in the session's error.
testSingleChunkSetsError(chunkIndex, outcome) ==
    /\ lastOp' = "testSingleChunk"
    /\ IF chunkIndex + 1 \in DOMAIN audioChunks
       THEN /\ lastRequest' = LiveSingleEndpoint
            /\ error' = IF outcome = "result" THEN error
                         ELSE Some("Failed to test chunk: " \o outcome)
       ELSE /\ lastRequest' = "none"
            /\ UNCHANGED error
    /\ UNCHANGED <<isRecording, isProcessing, transcription, resultOf, audioChunks,
                   mediaRecorderRef, streamRef, recordedChunksRef>>
    /\ UNCHANGED <<platform, inflight, fetchCount, submitOutcome>>

\* testSingleChunk. It returns when audioChunks has no chunk at chunkIndex; else it
\* posts the chunk to /live-single and alerts the result or the failure. It writes
\* no state before or after its awaits, so the call and its continuations are one
\* step, taken when the request has settled.
testSingleChunk(chunkIndex, outcome) ==
    /\ lastOp' = "testSingleChunk"
    /\ lastRequest' = IF chunkIndex + 1 \in DOMAIN audioChunks THEN LiveSingleEndpoint
                      ELSE "none"
    /\ UNCHANGED <<component, resultOf, platform, inflight, fetchCount, submitOutcome>>

-----------------------------------------------------------------------------
(* The component after mounting, and its steps *)

\* The platforms of the model: one whose MediaRecorder supports none of the listed
\* types, and one that supports some of them.
Platforms == {{}, {"audio/webm;codecs=opus", "audio/webm"}}

\* The upload page after mounting
AgentInit ==
    [file |-> Null, exportFormat |-> "none", transcript |-> "", editedTranscript |-> "",
     mom |-> Null, editedMom |-> Null, exportFilePath |-> Null, loading |-> FALSE,
     downloadLoading |-> FALSE, error |-> Null, dragActive |-> FALSE, isEditing |-> FALSE,
     request |-> Null, reExport |-> Null, download |-> Null,
     exports |-> 0, saved |-> {}, cleaned |-> {}]

\* The component after mounting: useState and useRef with their initial values,
\* nothing created on the platform, nothing in flight.
Mount ==
    /\ isRecording = FALSE
    /\ isProcessing = FALSE
    /\ transcription = Null
    /\ error = Null
    /\ audioChunks = <<>>
    /\ mediaRecorderRef = 0
    /\ streamRef = 0
    /\ recordedChunksRef = <<>>
    /\ recorders = <<>>
    /\ streams = <<>>
    /\ emitted = 0
    /\ testStreamsLive = 0
    /\ gumPending = 0
    /\ fetchPending = <<>>
    /\ fetchCount = 0
    /\ submitOutcome = "none"
    /\ lastOp = "mount"
    /\ lastRequest = "none"
    /\ resultOf = Null
    /\ speechToTxtAgent = AgentInit

Init ==
    /\ Mount
    /\ supported \in Platforms
    /\ sliceSize \in BlobSizes

Next ==
    \/ startRecording
    \/ \E granted \in BOOLEAN : initializeRecorder(granted)
    \/ \E r \in DOMAIN recorders : timeslice(r)
    \/ \E r \in DOMAIN recorders : recorderFails(r)
    \/ \E r \in DOMAIN recorders : deliver(r)
    \/ stopRecording
    \/ processAudioChunks
    \/ \E i \in DOMAIN fetchPending, resp \in Responses : fetchSettled(i, resp)
    \/ cleanup
    \/ \E granted \in BOOLEAN : testMicrophone(granted)

Spec == Init /\ [][Next]_vars

\* Every fetch settles: the browser resolves or rejects the promise of a request in
\* flight, and the continuation of processAudioChunks then runs.
FetchSettles == \E i \in DOMAIN fetchPending, resp \in Responses : fetchSettled(i, resp)

\* The handlers of recording and submission, without the microphone test.
SubmitNext ==
    \/ startRecording
    \/ \E granted \in BOOLEAN : initializeRecorder(granted)
    \/ \E r \in DOMAIN recorders : timeslice(r)
    \/ \E r \in DOMAIN recorders : recorderFails(r)
    \/ \E r \in DOMAIN recorders : deliver(r)
    \/ stopRecording
    \/ processAudioChunks
    \/ FetchSettles
    \/ cleanup

FairSpec == Init /\ [][SubmitNext]_vars /\ WF_vars(FetchSettles)

\* The session with the diagnostic of a single chunk (the Test button of a chunk)
\* next to the handlers of recording and submission.
DiagNext ==
    \/ SubmitNext
    \/ \E chunkIndex \in ChunkIndexes, outcome \in SingleOutcomes :
          testSingleChunk(chunkIndex, outcome)

DiagSpec == Init /\ [][DiagNext]_vars

\* The buttons of the page: a handler runs only by a click on a button that is
\* not disabled.
TestMicrophoneEnabled == ~(isRecording \/ isProcessing)
StartEnabled == ~(isRecording \/ isProcessing)
StopEnabled == ~(~isRecording \/ isProcessing)
GenerateEnabled == ~(isRecording \/ isProcessing \/ Len(audioChunks) = 0)
ResetEnabled == ~(isRecording \/ isProcessing)

\* The session as a user of the page drives it.
UINext ==
    \/ StartEnabled /\ startRecording
    \/ \E granted \in BOOLEAN : initializeRecorder(granted)
    \/ \E r \in DOMAIN recorders : timeslice(r)
    \/ \E r \in DOMAIN recorders : recorderFails(r)
    \/ \E r \in DOMAIN recorders : deliver(r)
    \/ StopEnabled /\ stopRecording
    \/ GenerateEnabled /\ processAudioChunks
    \/ FetchSettles
    \/ ResetEnabled /\ cleanup
    \/ \E granted \in BOOLEAN : TestMicrophoneEnabled /\ testMicrophone(granted)

\* The recorder hands over a buffer each second; at 128 kbit/s it holds more than
\* the 1000 bytes a submit asks for, a shorter last buffer holds less.
UIInit == Mount /\ supported \in Platforms /\ sliceSize \in SliceSizes

UISpec == UIInit /\ [][UINext]_vars

\* What MediaRecorder.isTypeSupported may accept: any of the listed types and one
\* the list does not name.
KnownTypes == {"audio/wav", "audio/webm;codecs=opus", "audio/webm", "audio/ogg;codecs=opus",
               "audio/mp4"}

MimeInit == Mount /\ supported \in SUBSET KnownTypes /\ sliceSize \in BlobSizes

\* Starting, stopping and resetting a recording, on every platform.
MimeNext ==
    \/ startRecording
    \/ \E granted \in BOOLEAN : initializeRecorder(granted)
    \/ \E r \in DOMAIN recorders : deliver(r)
    \/ stopRecording
    \/ cleanup

MimeSpec == MimeInit /\ [][MimeNext]_vars

\* The component is unmounted: it has registered no effect cleanup, nothing runs.
unmount ==
    /\ lastOp # "unmount"
    /\ lastOp' = "unmount"
    /\ lastRequest' = "none"
    /\ UNCHANGED <<component, resultOf, platform, inflight, fetchCount, submitOutcome>>

\* A page that can be left: after the unmount no handler of the component runs.
UnmountNext ==
    \/ lastOp # "unmount" /\ Next
    \/ unmount

UnmountSpec == Init /\ [][UnmountNext]_vars

-----------------------------------------------------------------------------
(* The upload page, SpeechToTxtAgent: the selection of a file, its upload, the
   editing of the transcript and the minutes, and the download of an export.
   speechToTxtAgent holds its useState fields; request, reExport and download
   are the fetches in flight; exports counts the files the server has written
   (their paths are 1..exports), saved and cleaned are the paths the browser has
   saved and the paths whose cleanup the server has acknowledged. *)

ALLOWED_FILE_TYPES == <<"audio/mpeg", "audio/wav", "audio/mp3", "video/mp4">>
MAX_FILE_SIZE == 50 * 1024 * 1024

\* ALLOWED_FILE_TYPES.includes(type)
Includes(list, x) == \E i \in DOMAIN list : list[i] = x

\* The files a user picks or drops: the allowed types and two others (the picker
\* accepts audio/* and video/*, a drop anything), sizes around the limit.
FileTypes == {"audio/mpeg", "audio/wav", "audio/mp3", "video/mp4", "audio/ogg", "application/pdf"}
FileSizes == {1024, MAX_FILE_SIZE, MAX_FILE_SIZE + 1}
Files == [type : FileTypes, size : FileSizes]

\* Files the server writes for export, over the life of the page
MaxExports == 2

\* Only speechToTxtAgent changes in a step of the upload page.
AgentStep(op, request) ==
    /\ lastOp' = op
    /\ lastRequest' = request
    /\ UNCHANGED <<component, resultOf, recorders, streams, emitted, testStreamsLive,
                   supported, sliceSize, inflight, fetchCount, submitOutcome>>

\* disabled={loading || downloadLoading}
Busy == speechToTxtAgent.loading \/ speechToTxtAgent.downloadLoading

\* A validation that compares the size with >=: a file of exactly the limit is refused.
SelectedStrict(agent, selected) ==
    IF selected = Null THEN agent
    ELSE IF ~Includes(ALLOWED_FILE_TYPES, selected[1].type)
    THEN [agent EXCEPT !.error = Some("Invalid file type. Please upload MP3, WAV, or MP4 files."),
                       !.file = Null]
    ELSE IF selected[1].size >= MAX_FILE_SIZE
    THEN [agent EXCEPT !.error = Some("File size exceeds 50MB limit."), !.file = Null]
    ELSE [agent EXCEPT !.error = Null, !.file = selected]

\* The body shared by handleFileChange and handleDrop: the checks of type and size
Selected(agent, selected) ==
    IF selected = Null THEN agent
    ELSE IF ~Includes(ALLOWED_FILE_TYPES, selected[1].type)
    THEN [agent EXCEPT !.error = Some("Invalid file type. Please upload MP3, WAV, or MP4 files."),
                       !.file = Null]
    ELSE IF selected[1].size > MAX_FILE_SIZE
    THEN [agent EXCEPT !.error = Some("File size exceeds 50MB limit."), !.file = Null]
    ELSE [agent EXCEPT !.error = Null, !.file = selected]

\* handleFileChange: the file input, disabled while loading or downloading
handleFileChange(selectedFile) ==
    /\ ~Busy
    /\ speechToTxtAgent' = Selected(speechToTxtAgent, selectedFile)
    /\ AgentStep("handleFileChange", "none")

\* handleDrag
handleDrag(type) ==
    /\ speechToTxtAgent' =
          IF type \in {"dragenter", "dragover"} THEN [speechToTxtAgent EXCEPT !.dragActive = TRUE]
          ELSE IF type = "dragleave" THEN [speechToTxtAgent EXCEPT !.dragActive = FALSE]
          ELSE speechToTxtAgent
    /\ AgentStep("handleDrag", "none")

\* A handleDrop that takes the dropped file as it is.
handleDropUnchecked(droppedFile) ==
    /\ speechToTxtAgent' =
          IF droppedFile = Null THEN [speechToTxtAgent EXCEPT !.dragActive = FALSE]
          ELSE [speechToTxtAgent EXCEPT !.dragActive = FALSE, !.file = droppedFile]
    /\ AgentStep("handleDrop", "none")

\* handleDrop
handleDrop(droppedFile) ==
    /\ speechToTxtAgent' = Selected([speechToTxtAgent EXCEPT !.dragActive = FALSE], droppedFile)
    /\ AgentStep("handleDrop", "none")

\* The button "Remove file", disabled while loading or downloading
removeFile ==
    /\ speechToTxtAgent.file # Null
    /\ ~Busy
    /\ speechToTxtAgent' = [speechToTxtAgent EXCEPT !.file = Null]
    /\ AgentStep("removeFile", "none")

\* The select of the export format, disabled while loading or downloading
setExportFormat(format) ==
    /\ ~Busy
    /\ speechToTxtAgent' = [speechToTxtAgent EXCEPT !.exportFormat = format]
    /\ AgentStep("setExportFormat", "none")

TranscribeEndpoint == "/speech-to-text/transcribe"
ExportEditedEndpoint == "/speech-to-text/export-edited"
DownloadEndpoint == "/download"
CleanupEndpoint == "/speech-to-text/cleanup"

\* handleUpload up to its await; its button is disabled while loading or downloading
handleUpload ==
    /\ ~Busy
    /\ IF speechToTxtAgent.file = Null
       THEN /\ speechToTxtAgent' =
                  [speechToTxtAgent EXCEPT !.error = Some("Please select a file to upload.")]
            /\ AgentStep("handleUpload", "none")
       ELSE /\ speechToTxtAgent' =
                  [speechToTxtAgent EXCEPT
                      !.loading = TRUE,
                      !.error = Null,
                      !.transcript = "",
                      !.editedTranscript = "",
                      !.mom = Null,
                      !.editedMom = Null,
                      !.exportFilePath = Null,
                      !.request = Some([file |-> speechToTxtAgent.file[1],
                                        export_format |-> speechToTxtAgent.exportFormat])]
            /\ AgentStep("handleUpload", TranscribeEndpoint)

\* The minutes: summary (overview, detailed), action_items, decisions
MoM(overview, detailed) ==
    [summary |-> [overview |-> overview, detailed |-> detailed],
     action_items |-> <<>>, decisions |-> <<>>]

\* The minutes handleUpload puts in place of a response without mom
EmptyMoM == MoM("", "")

\* What a request comes to when it does not succeed: a response that is not ok,
\* with or without a detail, or a fetch that is rejected.
Failures == {"detail", "no detail", "rejected"}
UploadOutcomes == {"ok"} \cup Failures

\* The message of the Error thrown for a failure, as the catch sets it
FailureMessage(outcome, fallback) ==
    CASE outcome = "detail" -> "Unsupported audio"
      [] outcome = "no detail" -> fallback
      [] outcome = "rejected" -> "Failed to fetch"

\* The bodies of an ok response of /transcribe: the transcript (possibly empty),
\* mom (possibly missing) and whether a file was exported.
UploadBodies ==
    [transcript : {"", "Hello"}, mom : {Null, Some(MoM("Sync", "Weekly"))}, exported : BOOLEAN]

\* x || y on strings
OrElse(x, y) == IF x = "" THEN y ELSE x

\* handleUpload after its fetch settles. (The text shown for an empty transcript
\* is written here without the warning sign that precedes it in the source.)
uploadSettled(outcome, body) ==
    /\ speechToTxtAgent.request # Null
    /\ body.exported => speechToTxtAgent.exports < MaxExports
    /\ speechToTxtAgent' =
          IF outcome = "ok"
          THEN [speechToTxtAgent EXCEPT
                  !.request = Null,
                  !.loading = FALSE,
                  !.transcript = OrElse(body.transcript, "No transcript received."),
                  !.editedTranscript = OrElse(body.transcript, ""),
                  !.mom = IF body.mom # Null THEN body.mom ELSE Some(EmptyMoM),
                  !.editedMom = IF body.mom # Null THEN body.mom ELSE Some(EmptyMoM),
                  !.exportFilePath = IF body.exported THEN Some(speechToTxtAgent.exports + 1) ELSE Null,
                  !.exports = IF body.exported THEN @ + 1 ELSE @]
          ELSE [speechToTxtAgent EXCEPT
                  !.request = Null,
                  !.loading = FALSE,
                  !.error = Some(FailureMessage(outcome, "Failed to transcribe audio"))]
    /\ AgentStep("uploadSettled", "none")

\* handleEditToggle: the Edit / Cancel button, shown with a transcript or minutes
handleEditToggle ==
    /\ speechToTxtAgent.transcript # "" \/ speechToTxtAgent.mom # Null
    /\ ~Busy
    /\ speechToTxtAgent' =
          IF speechToTxtAgent.isEditing
          THEN [speechToTxtAgent EXCEPT
                  !.editedTranscript = speechToTxtAgent.transcript,
                  !.editedMom = speechToTxtAgent.mom,
                  !.isEditing = FALSE]
          ELSE [speechToTxtAgent EXCEPT !.isEditing = TRUE]
    /\ AgentStep("handleEditToggle", "none")

\* handleSave: the Save button, shown with minutes in edit mode
handleSave ==
    /\ speechToTxtAgent.mom # Null
    /\ speechToTxtAgent.isEditing
    /\ ~Busy
    /\ speechToTxtAgent' =
          [speechToTxtAgent EXCEPT
              !.transcript = speechToTxtAgent.editedTranscript,
              !.mom = speechToTxtAgent.editedMom,
              !.isEditing = FALSE]
    /\ AgentStep("handleSave", "none")

\* The textarea of the transcript, shown in edit mode
editTranscript(text) ==
    /\ speechToTxtAgent.transcript # ""
    /\ speechToTxtAgent.isEditing
    /\ speechToTxtAgent' = [speechToTxtAgent EXCEPT !.editedTranscript = text]
    /\ AgentStep("editTranscript", "none")

\* The textarea of the overview, shown in edit mode when the minutes have one
editOverview(text) ==
    /\ speechToTxtAgent.mom # Null
    /\ speechToTxtAgent.mom[1].summary.overview # ""
    /\ speechToTxtAgent.isEditing
    /\ speechToTxtAgent.editedMom # Null
    /\ speechToTxtAgent' =
          [speechToTxtAgent EXCEPT !.editedMom = Some([@[1] EXCEPT !.summary.overview = text])]
    /\ AgentStep("editOverview", "none")

\* handleDownload up to its first await, for a path that is not empty
Download(agent, filePath, format, isEdited) ==
    [agent EXCEPT
        !.downloadLoading = TRUE,
        !.error = Null,
        !.download = Some([path |-> filePath, format |-> format, isEdited |-> isEdited,
                           stage |-> "download"])]

\* The Download button: handleDownload(exportFilePath, exportFormat)
handleDownload ==
    /\ speechToTxtAgent.exportFilePath # Null
    /\ speechToTxtAgent.exportFormat # "none"
    /\ ~speechToTxtAgent.isEditing
    /\ ~speechToTxtAgent.downloadLoading
    /\ speechToTxtAgent' =
          Download(speechToTxtAgent, speechToTxtAgent.exportFilePath[1],
                   speechToTxtAgent.exportFormat, FALSE)
    /\ AgentStep("handleDownload", DownloadEndpoint)

\* handleDownload after the fetch of /download settles: the file is saved and the
\* cleanup is requested, or the error is set and the flow ends.
downloadSettled(outcome) ==
    /\ speechToTxtAgent.download # Null
    /\ speechToTxtAgent.download[1].stage = "download"
    /\ IF outcome = "ok"
       THEN /\ speechToTxtAgent' =
                  [speechToTxtAgent EXCEPT
                      !.saved = @ \cup {speechToTxtAgent.download[1].path},
                      !.download = Some([@[1] EXCEPT !.stage = "cleanup"])]
            /\ AgentStep("downloadSettled", CleanupEndpoint)
       ELSE /\ speechToTxtAgent' =
                  [speechToTxtAgent EXCEPT
                      !.error = Some(FailureMessage(outcome, "Failed to download file")),
                      !.downloadLoading = FALSE,
                      !.download = Null]
            /\ AgentStep("downloadSettled", "none")

\* A handleDownload that keeps the stored path after the cleanup.
cleanupSettledKeepsPath(outcome) ==
    /\ speechToTxtAgent.download # Null
    /\ speechToTxtAgent.download[1].stage = "cleanup"
    /\ speechToTxtAgent' =
          [speechToTxtAgent EXCEPT
              !.cleaned = IF outcome = "ok" THEN @ \cup {speechToTxtAgent.download[1].path} ELSE @,
              !.downloadLoading = FALSE,
              !.download = Null]
    /\ AgentStep("cleanupSettled", "none")

\* handleDownload after the fetch of /cleanup settles, with its finally
cleanupSettled(outcome) ==
    /\ speechToTxtAgent.download # Null
    /\ speechToTxtAgent.download[1].stage = "cleanup"
    /\ speechToTxtAgent' =
          [speechToTxtAgent EXCEPT
              !.cleaned = IF outcome = "ok" THEN @ \cup {speechToTxtAgent.download[1].path} ELSE @,
              !.exportFilePath =
                  IF outcome = "ok" /\ ~speechToTxtAgent.download[1].isEdited THEN Null ELSE @,
              !.downloadLoading = FALSE,
              !.download = Null]
    /\ AgentStep("cleanupSettled", "none")

\* handleReExport up to its await: the Export button, shown with minutes outside
\* edit mode when a format is selected
handleReExport ==
    /\ ~speechToTxtAgent.isEditing
    /\ speechToTxtAgent.mom # Null
    /\ speechToTxtAgent.exportFormat # "none"
    /\ ~Busy
    /\ IF speechToTxtAgent.editedMom = Null
       THEN /\ UNCHANGED speechToTxtAgent
            /\ AgentStep("handleReExport", "none")
       ELSE /\ speechToTxtAgent' =
                  [speechToTxtAgent EXCEPT
                      !.downloadLoading = TRUE,
                      !.error = Null,
                      !.reExport = Some([mom |-> speechToTxtAgent.editedMom[1],
                                         export_format |-> speechToTxtAgent.exportFormat])]
            /\ AgentStep("handleReExport", ExportEditedEndpoint)

\* handleReExport after its fetch settles: the download of the file exported
\* begins, or the error is set.
reExportSettled(outcome) ==
    /\ speechToTxtAgent.reExport # Null
    /\ IF outcome = "ok"
       THEN /\ speechToTxtAgent.exports < MaxExports
            /\ speechToTxtAgent' =
                  Download([speechToTxtAgent EXCEPT !.reExport = Null, !.exports = @ + 1],
                           speechToTxtAgent.exports + 1,
                           speechToTxtAgent.reExport[1].export_format, TRUE)
            /\ AgentStep("reExportSettled", DownloadEndpoint)
       ELSE /\ speechToTxtAgent' =
                  [speechToTxtAgent EXCEPT
                      !.error = Some(FailureMessage(outcome, "Failed to export edited MoM")),
                      !.downloadLoading = FALSE,
                      !.reExport = Null]
            /\ AgentStep("reExportSettled", "none")

\* The selection of a file and its upload
UploadNext ==
    \/ \E selectedFile \in {Null} \cup {Some(f) : f \in Files} : handleFileChange(selectedFile)
    \/ \E type \in {"dragenter", "dragover", "dragleave"} : handleDrag(type)
    \/ \E droppedFile \in {Null} \cup {Some(f) : f \in Files} : handleDrop(droppedFile)
    \/ removeFile
    \/ \E format \in {"none", "pdf", "docx"} : setExportFormat(format)
    \/ handleUpload
    \/ \E outcome \in UploadOutcomes :
          uploadSettled(outcome, [transcript |-> "Hello", mom |-> Null, exported |-> FALSE])

UploadSpec == Init /\ [][UploadNext]_vars

\* The file of the review: an MP3 of 1 KB
Recording1 == [type |-> "audio/mpeg", size |-> 1024]

\* What is typed into a textarea
Typed == {"", "Hello!"}

\* The upload of a file, the review of its transcript and minutes, and the
\* download of the exports
ReviewNext ==
    \/ handleFileChange(Some(Recording1))
    \/ \E format \in {"none", "pdf"} : setExportFormat(format)
    \/ handleUpload
    \/ \E outcome \in UploadOutcomes, body \in UploadBodies : uploadSettled(outcome, body)
    \/ handleEditToggle
    \/ handleSave
    \/ \E text \in Typed : editTranscript(text)
    \/ \E text \in Typed : editOverview(text)
    \/ handleDownload
    \/ \E outcome \in UploadOutcomes : downloadSettled(outcome)
    \/ \E outcome \in UploadOutcomes : cleanupSettled(outcome)
    \/ handleReExport
    \/ \E outcome \in UploadOutcomes : reExportSettled(outcome)

ReviewSpec == Init /\ [][ReviewNext]_vars

-----------------------------------------------------------------------------
(* Properties of the session *)

Recorders(state) == {r \in DOMAIN recorders : recorders[r].state = state}
LiveStreams == {st \in DOMAIN streams : streams[st] = "live"}

RECURSIVE TotalSize(_)
TotalSize(chunks) ==
    IF chunks = <<>> THEN 0 ELSE Head(chunks).size + TotalSize(Tail(chunks))

\* The response is not ok and its body is a JSON object with a string field detail.
HasDetail(resp) ==
    /\ resp.settled = "resolved"
    /\ ~resp.ok
    /\ resp.body \in {"{\"detail\":\"model unavailable\"}", "{\"detail\":\"\"}"}

Detail(resp) == IF resp.body = "{\"detail\":\"model unavailable\"}" THEN "model unavailable" ELSE ""

\* The response is ok and its transcript is empty or only whitespace.
HasBlankTranscript(resp) ==
    /\ resp.settled = "resolved"
    /\ resp.ok
    /\ resp.body \in {"{\"transcript\":\"\"}", "{\"transcript\":\" \\n\"}"}

C2_SubmitRejectedOutsideStopped ==
    [][(lastOp' = "processAudioChunks" /\ State # "Stopped") =>
          UNCHANGED <<isRecording, isProcessing, submitOutcome, audioChunks, error,
                      transcription, fetchPending, fetchCount>>]_vars

C4_BlankTranscriptFails ==
    [][\A i \in DOMAIN fetchPending, resp \in Responses :
          (lastOp' = "fetchSettled" /\ HasBlankTranscript(resp) /\ fetchSettled(i, resp)) =>
              /\ State' = "Failed"
              /\ error' = Some(NoSpeechMessage)
              /\ transcription' = Null]_vars

\* C5: processAudioChunks on chunks whose total size is below 1000 bytes fails at
\* once with the too-short error and issues no request.
C5_TooShortIsLocal ==
    [][(lastOp' = "processAudioChunks" /\ audioChunks # <<>> /\ TotalSize(audioChunks) < 1000) =>
          /\ fetchCount' = fetchCount /\ fetchPending' = fetchPending
          /\ ~isProcessing'
          /\ State' = "Failed"
          /\ error' = Some("Processing failed: Audio file too small. Please record for longer duration.")]_vars

\* processAudioChunks has just rejected a recording of fewer than 1000 bytes.
C5_Witness ==
    /\ lastOp = "processAudioChunks"
    /\ audioChunks # <<>> /\ TotalSize(audioChunks) < 1000
    /\ State = "Failed"
    /\ fetchCount = 0

\* C6: startRecording invoked in state Recording leaves the recorders, the audio
\* buffer, the chunks, the error and the result as they are.
C6_SecondStartUntouched ==
    [][(lastOp' = "startRecording" /\ State = "Recording") =>
          UNCHANGED <<recorders, recordedChunksRef, audioChunks, error, transcription>>]_vars

\* C7: there is never more than one open device stream, and never more than one
\* recorder recording.
C7_NoConcurrentRecordings ==
    /\ Cardinality(LiveStreams) <= 1
    /\ Cardinality(Recorders("recording")) <= 1

C9_ResultOnlyInCompleted ==
    transcription # Null => State = "Completed"

\* C10: the error is non-null only in state Failed.
C10_ErrorOnlyInFailed ==
    error # Null => State = "Failed"

\* The stop event of recorder r is the next one the event loop hands over.
StopIsNext(r) == recorders[r].events # <<>> /\ Head(recorders[r].events).type = "stop"

\* The buffers a chunk list holds, in order.
RECURSIVE Parts(_)
Parts(chunks) ==
    IF chunks = <<>> THEN <<>> ELSE Head(chunks).data.parts \o Parts(Tail(chunks))

\* C11 as stated: when the only recording so far, in which the timeslice produced
\* N >= 1 buffers, has been stopped (and not reset), the chunk list has length N
\* and indices 0..N-1 in order.
C11_OneChunkPerBuffer ==
    [][\A r \in DOMAIN recorders :
          (lastOp' = "onstop" /\ StopIsNext(r) /\ Len(recorders) = 1
             /\ mediaRecorderRef = r /\ recorders[r].sent >= 1 /\ deliver(r)) =>
              /\ Len(audioChunks') = recorders[r].sent
              /\ \A i \in DOMAIN audioChunks' : audioChunks'[i].index = i - 1]_vars

\* C11 amended: when a recording is stopped with buffers held, whatever their
\* number, the chunk list has length 1: one chunk with index 0, whose data is the
\* buffers in order and whose size is their total.
C11_OneMergedChunk ==
    [][\A r \in DOMAIN recorders :
          (lastOp' = "onstop" /\ StopIsNext(r) /\ recordedChunksRef # <<>> /\ deliver(r)) =>
              /\ Len(audioChunks') = 1
              /\ audioChunks'[1].index = 0
              /\ audioChunks'[1].data.parts = recordedChunksRef
              /\ audioChunks'[1].size = SumSizes(recordedChunksRef)]_vars

\* A recording of two buffers has been stopped and made into one chunk.
C11_Witness ==
    /\ lastOp = "onstop"
    /\ Len(audioChunks) = 1
    /\ Len(audioChunks[1].data.parts) = 2
    /\ audioChunks[1].index = 0

\* C12: the audio a submit sends is the buffers the current recorder r emitted in
\* the recording that was stopped, each once and in the order of emission: the chunk onstop
\* builds holds buffers of r only, in increasing order, as many as the timeslice
\* produced plus at most the one flushed by the stop; and the request carries the
\* data of that chunk.
C12_PayloadIsTheRecording ==
    /\ [][\A r \in DOMAIN recorders :
             (lastOp' = "onstop" /\ StopIsNext(r) /\ mediaRecorderRef = r /\ deliver(r)) =>
                 LET parts == Parts(audioChunks') IN
                 /\ \A i \in DOMAIN parts : parts[i].rec = r
                 /\ \A i, j \in DOMAIN parts : i < j => parts[i].seq < parts[j].seq
                 /\ Len(parts) \in {recorders[r].sent, recorders[r].sent + 1}]_vars
    /\ [][(lastOp' = "processAudioChunks" /\ fetchCount' > fetchCount) =>
             fetchPending' = Append(fetchPending, NewBlob(Parts(audioChunks), audioChunks[1].data.type))]_vars

\* C13: a dataavailable event handled after the recording has been stopped (the
\* session is Stopped) changes neither the chunks nor the audio buffer.
C13_LateDataIgnored ==
    [][(lastOp' = "ondataavailable" /\ State = "Stopped") =>
          UNCHANGED <<audioChunks, recordedChunksRef>>]_vars

\* What processAudioChunks makes of each way its fetch can settle.
OutcomeOf == [resp \in Responses |-> Outcome(resp)]

\* The fetch rejected, the response is not ok, or it is ok with a body that is not JSON.
SubmitFailure(resp) ==
    \/ resp.settled = "rejected"
    \/ ~resp.ok
    \/ resp.body = "<html>"

\* C14: a rejected fetch, a response that is not ok and an ok response whose body
\* is not JSON each leave the session Failed, not processing, with an error message.
C14_FailuresAreCaught ==
    [][\A i \in DOMAIN fetchPending, resp \in Responses :
          (lastOp' = "fetchSettled" /\ SubmitFailure(resp)
             /\ error' = OutcomeOf[resp].error /\ fetchSettled(i, resp)) =>
              /\ State' = "Failed"
              /\ ~isProcessing'
              /\ error' # Null
              /\ error'[1] # ""]_vars

\* A submit has ended on an ok response whose body is not JSON.
C14_Witness ==
    /\ lastOp = "fetchSettled"
    /\ State = "Failed"
    /\ error = Some("Processing failed: " \o SyntaxErrorMessage)

\* C15: while a request of processAudioChunks is in flight, no handler other than
\* its own continuation ends the processing, starts or ends a recording, or changes
\* the chunks.
C15_CommittedToSubmitting ==
    [][(isProcessing /\ fetchPending # <<>> /\ lastOp' # "fetchSettled") =>
          /\ isProcessing'
          /\ State' = "Submitting"
          /\ isRecording' = isRecording
          /\ Recorders("recording")' = Recorders("recording")
          /\ audioChunks' = audioChunks]_vars

\* C16: every submit that enters Submitting reaches Completed or Failed, given that
\* its request settles; and however the request settles, the session is no longer
\* processing afterwards.
C16_SubmitTerminates ==
    /\ isProcessing ~> (~isProcessing /\ State \in {"Completed", "Failed"})
    /\ [][lastOp' = "fetchSettled" =>
             (~isProcessing' /\ State' \in {"Completed", "Failed"})]_vars

\* A submit has ended with a result, and no request is in flight.
C16_Witness ==
    /\ lastOp = "fetchSettled"
    /\ State = "Completed"
    /\ ~isProcessing /\ fetchPending = <<>>
    /\ transcription # Null

\* C17: testMicrophone, granted or denied and in any state, leaves the session's
\* state, chunks, error and result as they were, and the stream it opened is closed.
C17_TestMicrophoneLeavesNoTrace ==
    [][lastOp' = "testMicrophone" =>
          /\ UNCHANGED <<isRecording, isProcessing, submitOutcome, audioChunks, error,
                         transcription>>
          /\ State' = State
          /\ testStreamsLive' = 0]_vars

\* C18: after cleanup no device stream the session acquired is open.
C18_NoStreamLeak ==
    lastOp = "cleanup" => (LiveStreams = {} /\ testStreamsLive = 0)

\* C19: testSingleChunk, for any index and however its request ends, leaves the
\* session's state, chunks, error and result as they were and sends nothing to
\* /live-chunks; a request it sends goes to /live-single and carries a chunk.
C19_SingleChunkTouchesNothing ==
    [][lastOp' = "testSingleChunk" =>
          /\ UNCHANGED <<isRecording, isProcessing, submitOutcome, audioChunks, error,
                         transcription, recordedChunksRef>>
          /\ State' = State
          /\ UNCHANGED <<fetchPending, fetchCount>>
          /\ lastRequest' \in {"none", LiveSingleEndpoint}
          /\ (lastRequest' = LiveSingleEndpoint => audioChunks # <<>>)]_vars

\* testSingleChunk has posted the chunk of a session whose submit had failed.
C19_Witness ==
    /\ lastOp = "testSingleChunk"
    /\ lastRequest = LiveSingleEndpoint
    /\ State = "Failed"
    /\ error # Null

\* C20: cleanup right after cleanup changes nothing: not the state, the chunks, the
\* error, the result, the refs, the streams or the recorders.
C20_ResetIdempotent ==
    [][(lastOp = "cleanup" /\ lastOp' = "cleanup") =>
          UNCHANGED <<component, streams, recorders, emitted, submitOutcome, inflight>>]_vars

\* cleanup has torn down a running recording whose recorder still has its last
\* events to deliver.
C20_Witness ==
    /\ lastOp = "cleanup"
    /\ streamRef = 0 /\ mediaRecorderRef = 0
    /\ streams # <<>> /\ LiveStreams = {}
    /\ \E r \in DOMAIN recorders : recorders[r].events # <<>>

\* C21: a request to /live-chunks is sent only by a call of processAudioChunks, one
\* per call; the end of a request, failed or not, sends none.
C21_NoRetry ==
    [][/\ (fetchCount' # fetchCount \/ Len(fetchPending') > Len(fetchPending)) =>
             /\ lastOp' = "processAudioChunks"
             /\ fetchCount' = fetchCount + 1
             /\ Len(fetchPending') = Len(fetchPending) + 1
       /\ lastOp' = "fetchSettled" =>
             /\ fetchCount' = fetchCount
             /\ Len(fetchPending') = Len(fetchPending) - 1
             /\ lastRequest' = "none"]_vars

\* The only request of the session has failed and none is in flight.
C21_Witness ==
    /\ lastOp = "fetchSettled"
    /\ State = "Failed"
    /\ fetchCount = 1 /\ fetchPending = <<>>

\* C22: stopRecording while the session is not recording (isRecording is false)
\* changes nothing: not the state, the chunks, the error, the result, the refs,
\* the recorders or the streams.
C22_StopWhenNotRecording ==
    [][(lastOp' = "stopRecording" /\ ~isRecording) =>
          UNCHANGED <<component, submitOutcome, recorders, streams, emitted, inflight,
                      fetchCount>>]_vars

\* stopRecording has been called on a session that is not recording but whose
\* recorder is: start() was called and the start event is still to be fired.
C22_Witness ==
    /\ lastOp = "stopRecording"
    /\ ~isRecording
    /\ mediaRecorderRef # 0
    /\ recorders[mediaRecorderRef].state = "recording"

\* C25: in state Stopped no device stream is open and no handle is held, and a
\* startRecording in Stopped acquires a new stream.
C25_StopReleasesHandle ==
    /\ [](State = "Stopped" => (LiveStreams = {} /\ streamRef = 0 /\ mediaRecorderRef = 0))
    /\ [][(lastOp' = "startRecording" /\ State = "Stopped") =>
             gumPending' = gumPending + 1]_vars

\* The places of the platform's supported types in the component's list.
SupportedAt == {i \in DOMAIN mimeTypes : mimeTypes[i] \in supported}

\* C26: every recorder is created with the earliest entry of the list (audio/wav,
\* audio/webm;codecs=opus, audio/webm, audio/ogg;codecs=opus) that the platform
\* supports; on a platform that supports none no recorder exists, the session is
\* never recording, and an initialization whose stream was granted ends with the
\* error of no supported type.
C26_FirstMatchNegotiation ==
    /\ [](\A r \in DOMAIN recorders :
            \E i \in SupportedAt :
               /\ recorders[r].mimeType = mimeTypes[i]
               /\ \A j \in SupportedAt : i <= j)
    /\ [](SupportedAt = {} => (recorders = <<>> /\ mediaRecorderRef = 0 /\ ~isRecording))
    /\ [][(lastOp' = "initializeRecorder" /\ SupportedAt = {} /\ streams' # streams) =>
             error' = Some("Failed to initialize recorder: No supported audio MIME type found")]_vars

\* A recording runs as audio/webm on a platform that also supports a later entry
\* of the list and a type the list does not name, but neither of the first two.
C26_Witness ==
    /\ supported = {"audio/webm", "audio/ogg;codecs=opus", "audio/mp4"}
    /\ isRecording
    /\ recorders[mediaRecorderRef].mimeType = "audio/webm"

\* The response is not ok and its body is plain text or JSON without a detail.
Unstructured(resp) ==
    /\ resp.settled = "resolved"
    /\ ~resp.ok
    /\ resp.body \in {"Internal Server Error", "{\"message\":\"boom\"}"}

\* C27: a response that is not ok and whose body is not a structured error leaves
\* the session Failed with the raw body as the error, be it on its own or behind
\* the prefix "Processing failed: HTTP <status>: " every error of a response carries.
C27_RawBodyFallback ==
    [][\A i \in DOMAIN fetchPending, resp \in Responses :
          (lastOp' = "fetchSettled" /\ Unstructured(resp)
             /\ error' = OutcomeOf[resp].error /\ fetchSettled(i, resp)) =>
              /\ State' = "Failed"
              /\ error' \in {Some(resp.body),
                             Some("Processing failed: HTTP " \o resp.status \o ": " \o resp.body)}]_vars

\* C28: once a submit has ended in Completed the chunk list is empty.
C28_ChunksDiscardedAfterSuccess ==
    State = "Completed" => audioChunks = <<>>

\* C23: once the component is unmounted no device stream is open and no recorder
\* is capturing.
C23_UnmountCleansUp ==
    lastOp = "unmount" => (LiveStreams = {} /\ Recorders("recording") = {})

\* The file is of an allowed type and not larger than 50 MB.
Allowed(f) == Includes(ALLOWED_FILE_TYPES, f.type) /\ f.size <= 50 * 1024 * 1024

\* C24: the file held by the upload page is null or allowed, and so is the file of
\* every upload; a pick or a drop of an allowed file, one of exactly 50 MB
\* included, makes it the selection.
C24_SelectionIsAllowed ==
    /\ [](/\ speechToTxtAgent.file # Null => Allowed(speechToTxtAgent.file[1])
          /\ speechToTxtAgent.request # Null => Allowed(speechToTxtAgent.request[1].file))
    /\ [][\A f \in Files :
            (Allowed(f) /\ (handleFileChange(Some(f)) \/ handleDrop(Some(f)))) =>
                speechToTxtAgent'.file = Some(f)]_vars

\* A dropped file of exactly 50 MB is being uploaded.
C24_Witness ==
    /\ lastOp = "handleUpload"
    /\ speechToTxtAgent.request # Null
    /\ speechToTxtAgent.request[1].file.size = 50 * 1024 * 1024
    /\ speechToTxtAgent.file # Null

\* C29: whenever a result is shown and the chunk list is not empty, the result is
\* the one of a submit of exactly these chunks.
C29_ResultOfCurrentChunks ==
    (transcription # Null /\ audioChunks # <<>>) => resultOf = Some(audioChunks[1].data)

\* C30: isRecording and isProcessing are never both true when the handlers run
\* only by clicks on enabled buttons.
C30_NeverRecordingAndProcessing ==
    ~(isRecording /\ isProcessing)

\* The callbacks that may arrive late: a recorder's dataavailable and stop, and the
\* continuation of a submit.
LateEvents == {"ondataavailable", "onstop", "fetchSettled"}

\* C31: a callback that arrives right after a reset, be it of the discarded
\* recorder or of a submit still outstanding, leaves the chunks empty and the
\* error and the result null.
C31_ResetNotUndone ==
    [][(lastOp = "cleanup" /\ lastOp' \in LateEvents) =>
          (audioChunks' = <<>> /\ error' = Null /\ transcription' = Null)]_vars

\* C32: after a startRecording that has failed (no recorder is held once its
\* initialization has ended) no device stream is open, and a stream that is open
\* is always the one streamRef holds.
C32_FailedStartHoldsNoDevice ==
    /\ (lastOp = "initializeRecorder" /\ mediaRecorderRef = 0) => LiveStreams = {}
    /\ \A st \in LiveStreams : st = streamRef

\* C33: every buffer of the chunk built at a stop comes from the recorder whose
\* stop it is, the session's current one, and from its recording that just ended:
\* as many buffers as its timeslice produced, plus at most the one the stop flushed.
C33_OnlyThisRecording ==
    [][\A r \in DOMAIN recorders :
          (lastOp' = "onstop" /\ StopIsNext(r) /\ deliver(r) /\ audioChunks' # <<>>) =>
              LET parts == Parts(audioChunks') IN
              /\ mediaRecorderRef = r
              /\ \A i \in DOMAIN parts : parts[i].rec = r
              /\ Len(parts) <= recorders[r].sent + 1]_vars

\* The recorder r has handed the component no buffer in the recording that its
\* stop event ends: its timeslice produced none and the stop flushed nothing.
NothingCaptured(r) ==
    /\ StopIsNext(r)
    /\ recorders[r].sent = 0
    /\ \A i \in DOMAIN recordedChunksRef : recordedChunksRef[i].rec # r

\* C34: when the stop event of a recording that captured no buffer is handled the
\* session is not recording, the chunks are empty and the error is the message of
\* no audio data; a submit that follows sends no request.
C34_EmptyRecording ==
    /\ [][\A r \in DOMAIN recorders :
             (lastOp' = "onstop" /\ NothingCaptured(r) /\ deliver(r)) =>
                 /\ ~isRecording'
                 /\ audioChunks' = <<>>
                 /\ error' = Some("No audio data was recorded. Please check microphone permissions.")]_vars
    /\ [][(lastOp = "onstop" /\ audioChunks = <<>> /\ lastOp' = "processAudioChunks") =>
             (UNCHANGED <<fetchPending, fetchCount>> /\ lastRequest' = "none")]_vars

\* The bytes of every buffer held in the chunks.
CapturedSize == SumSizes(Parts(audioChunks))

\* C35: a submit sends a request, exactly one, if and only if the buffers of the
\* recording add up to 1000 bytes or more: 1000 is accepted, 999 is refused with
\* the error of a recording too short.
C35_AggregateSizeBoundary ==
    [][lastOp' = "processAudioChunks" =>
          /\ CapturedSize >= 1000 =>
                /\ fetchCount' = fetchCount + 1
                /\ fetchPending' = Append(fetchPending, audioChunks[1].data)
                /\ lastRequest' = "/live-speech-to-text/live-chunks"
          /\ CapturedSize < 1000 =>
                /\ UNCHANGED <<fetchCount, fetchPending>>
                /\ lastRequest' = "none"
                /\ audioChunks # <<>> =>
                      error' = Some("Processing failed: Audio file too small. Please record for longer duration.")]_vars

\* A recording of two buffers of 500 bytes, 1000 bytes in all, has been submitted
\* and its request is on its way.
C35_Witness ==
    /\ lastOp = "processAudioChunks"
    /\ Len(Parts(audioChunks)) = 2
    /\ CapturedSize = 1000
    /\ fetchPending = <<audioChunks[1].data>>

\* C36: outside edit mode the edit buffers hold what is shown: editedTranscript is
\* transcript and editedMom is mom.
C36_EditBuffersInSync ==
    ~speechToTxtAgent.isEditing =>
        /\ speechToTxtAgent.editedTranscript = speechToTxtAgent.transcript
        /\ speechToTxtAgent.editedMom = speechToTxtAgent.mom

\* C37: in the download flow the cleanup of a file is requested only when the
\* browser has saved it; the stored path goes away only when the cleanup of the
\* original export, the path stored, is acknowledged; a download that fails keeps
\* the stored path and ends the flow; and no download is requested for a path
\* whose cleanup has been acknowledged.
C37_DownloadThenCleanup ==
    /\ [][lastRequest' = "/speech-to-text/cleanup" =>
             /\ lastOp' = "downloadSettled"
             /\ speechToTxtAgent'.download[1].stage = "cleanup"
             /\ speechToTxtAgent'.download[1].path = speechToTxtAgent.download[1].path
             /\ speechToTxtAgent'.download[1].path \in speechToTxtAgent'.saved]_vars
    /\ [][(lastOp' \in {"handleDownload", "downloadSettled", "cleanupSettled",
                        "handleReExport", "reExportSettled"}
           /\ speechToTxtAgent'.exportFilePath # speechToTxtAgent.exportFilePath) =>
             /\ lastOp' = "cleanupSettled"
             /\ speechToTxtAgent'.exportFilePath = Null
             /\ ~speechToTxtAgent.download[1].isEdited
             /\ speechToTxtAgent.exportFilePath = Some(speechToTxtAgent.download[1].path)
             /\ speechToTxtAgent.download[1].path \in speechToTxtAgent'.cleaned
             /\ speechToTxtAgent.download[1].path \notin speechToTxtAgent.cleaned]_vars
    /\ [][(lastOp' = "downloadSettled" /\ lastRequest' = "none") =>
             /\ speechToTxtAgent'.exportFilePath = speechToTxtAgent.exportFilePath
             /\ speechToTxtAgent'.error # Null
             /\ ~speechToTxtAgent'.downloadLoading
             /\ speechToTxtAgent'.saved = speechToTxtAgent.saved]_vars
    /\ [][lastRequest' = "/download" =>
             speechToTxtAgent'.download[1].path \notin speechToTxtAgent.cleaned]_vars
    /\ [](speechToTxtAgent.exportFilePath # Null =>
             speechToTxtAgent.exportFilePath[1] \notin speechToTxtAgent.cleaned)

\* The original export has been downloaded and saved and its cleanup has been
\* acknowledged: the stored path is gone.
C37_Witness ==
    /\ lastOp = "cleanupSettled"
    /\ speechToTxtAgent.exportFilePath = Null
    /\ speechToTxtAgent.cleaned = {1}
    /\ speechToTxtAgent.saved = {1}
    /\ speechToTxtAgent.error = Null
    /\ speechToTxtAgent.mom # Null

====
